---- MODULE Spec2Model ----
(***************************************************************************)
(* Blogicum (django_sprint4): the record store (users, categories, posts,  *)
(* comments), the clock, and the request handlers of blog/views.py and     *)
(* blog/forms.py.  Every action is one HTTP request handled to the end;    *)
(* resp is the response of the request handled by the last step.           *)
(***************************************************************************)
EXTENDS Integers, Sequences, FiniteSets, TLC

VARIABLES users, categories, posts, post_seq, comments, comment_seq, now, resp

vars == <<users, categories, posts, post_seq, comments, comment_seq, now, resp>>
store == <<users, categories, posts, post_seq, comments, comment_seq>>

(* ------------------------------ bounds -------------------------------- *)
MaxUsers == 2
MaxNames == 2
MaxEmails == 3
MaxPosts == 1
MaxComments == 1
MaxTime == 2
MaxListed == 21
MaxPageArg == 4

(* --------------------------- program constants ------------------------ *)
\* Paginator(post_list, 10)
PER_PAGE == 10
\* request.user of a request without a session (AnonymousUser)
Anonymous == 0
\* Post.category is NULL
NoCategory == 0

Usernames == 1..MaxNames
Emails == 1..MaxEmails
Dates == 1..MaxTime
Texts == {"a", "b"}
Slugs == {1}
PostIds == 1..(MaxPosts + 1)
CommentIds == 1..(MaxComments + 1)
Viewers == {Anonymous} \cup DOMAIN users

\* request.GET.get('page'): no parameter, a non-numeric string, or an integer
NoPage == <<"none">>
PageArgs == {NoPage, <<"text">>} \cup {<<"int", k>> : k \in (0 - 1)..MaxPageArg}

Response(kind, user, target, status) ==
    [kind |-> kind, user |-> user, target |-> target, status |-> status,
     arg |-> NoPage, number |-> 0, object_list |-> <<>>, items |-> <<>>]

Range(s) == {s[i] : i \in DOMAIN s}

(* -------------------------- django.core.paginator --------------------- *)
\* Paginator.num_pages with orphans = 0 and allow_empty_first_page = True
NumPages(count) ==
    LET hits == IF count > 1 THEN count ELSE 1
    IN  (hits + PER_PAGE - 1) \div PER_PAGE

\* get_page with a number below 1 sent to the first page
GetPageNumberClampFirst(arg, count) ==
    IF arg[1] # "int" THEN 1
    ELSE IF arg[2] < 1 THEN 1
    ELSE IF arg[2] > NumPages(count) THEN NumPages(count)
    ELSE arg[2]

\* Paginator.get_page: validate_number raises PageNotAnInteger (-> page 1) or
\* EmptyPage for number < 1 and number > num_pages (-> num_pages)
GetPageNumber(arg, count) ==
    IF arg[1] # "int" THEN 1
    ELSE IF arg[2] < 1 THEN NumPages(count)
    ELSE IF arg[2] > NumPages(count) THEN NumPages(count)
    ELSE arg[2]

\* Paginator.page: object_list[bottom:top]
PageItems(object_list, number) ==
    LET count == Len(object_list)
        bottom == (number - 1) * PER_PAGE
        top == IF bottom + PER_PAGE >= count THEN count ELSE bottom + PER_PAGE
    IN  SubSeq(object_list, bottom + 1, top)

(* ------------------------------ querysets ----------------------------- *)
\* ORDER BY pub_date DESC: the rows dated d, in primary-key order, then the older ones
RECURSIVE DatedFrom(_, _)
DatedFrom(S, d) ==
    IF d < 1 THEN <<>>
    ELSE LET dated(p) == p \in S /\ posts[p].pub_date = d
         IN  SelectSeq([p \in 1..post_seq |-> p], dated) \o DatedFrom(S, d - 1)

\* .order_by('-pub_date')
OrderByPubDateDesc(S) == DatedFrom(S, MaxTime)

\* category__is_published=True: the join drops posts whose category is NULL
CategoryIsPublished(p) ==
    /\ posts[p].category # NoCategory
    /\ categories[posts[p].category].is_published

\* index without category__is_published=True
IndexFilterNoCategory(p) ==
    /\ posts[p].pub_date <= now
    /\ posts[p].is_published

\* index: filter(pub_date__lte=now, is_published=True, category__is_published=True)
IndexFilter(p) ==
    /\ posts[p].pub_date <= now
    /\ posts[p].is_published
    /\ CategoryIsPublished(p)

\* category_posts without pub_date__lte=now
CategoryFilterNoDate(slug, p) ==
    /\ posts[p].category = slug
    /\ posts[p].is_published

\* category_posts: filter(category=category, is_published=True, pub_date__lte=now)
CategoryFilter(slug, p) ==
    /\ posts[p].category = slug
    /\ posts[p].is_published
    /\ posts[p].pub_date <= now

\* ProfileView filtering the owner's own listing too
ProfileFilterAlways(viewer, u, p) ==
    /\ posts[p].author = u
    /\ posts[p].is_published
    /\ CategoryIsPublished(p)
    /\ posts[p].pub_date <= now

\* ProfileView.get_context_data: user.blog.all(), filtered when request.user != user
ProfileFilter(viewer, u, p) ==
    /\ posts[p].author = u
    /\ viewer # u =>
          /\ posts[p].is_published
          /\ CategoryIsPublished(p)
          /\ posts[p].pub_date <= now

\* post_detail without pub_date__lte=now
DetailFilterNoDate(viewer, p) ==
    IF viewer # Anonymous
    THEN \/ posts[p].author = viewer
         \/ /\ posts[p].is_published
            /\ CategoryIsPublished(p)
    ELSE /\ posts[p].is_published
         /\ CategoryIsPublished(p)

\* post_detail: Q(author=request.user) | Q(published...) when authenticated,
\* the published filter alone when anonymous
DetailFilter(viewer, p) ==
    IF viewer # Anonymous
    THEN \/ posts[p].author = viewer
         \/ /\ posts[p].is_published
            /\ CategoryIsPublished(p)
            /\ posts[p].pub_date <= now
    ELSE /\ posts[p].is_published
         /\ CategoryIsPublished(p)
         /\ posts[p].pub_date <= now

Listing(kind, viewer, target, arg, object_list) ==
    LET number == GetPageNumber(arg, Len(object_list))
    IN  [kind |-> kind, user |-> viewer, target |-> target, status |-> "200",
         arg |-> arg, number |-> number, object_list |-> object_list,
         items |-> PageItems(object_list, number)]

(* ------------------------------- state -------------------------------- *)
TypeOK ==
    /\ DOMAIN users \subseteq 1..MaxUsers
    /\ \A u \in DOMAIN users : users[u].username \in Usernames /\ users[u].email \in Emails
    /\ DOMAIN categories = Slugs
    /\ post_seq \in Nat /\ comment_seq \in Nat
    /\ \A p \in DOMAIN posts :
          /\ p <= post_seq
          /\ posts[p].category \in Slugs \cup {NoCategory}
          /\ posts[p].pub_date \in Nat
    /\ \A c \in DOMAIN comments : c <= comment_seq /\ comments[c].text \in Texts
    /\ now \in Dates

Idle == Response("none", Anonymous, 0, "none")

\* two registered users (distinct usernames and emails), one category
TwoUsers == [u \in {1, 2} |-> [username |-> u, email |-> u]]

Init ==
    /\ users = TwoUsers
    /\ categories \in [Slugs -> [is_published : BOOLEAN]]
    /\ posts = <<>>
    /\ post_seq = 0
    /\ comments = <<>>
    /\ comment_seq = 0
    /\ now = 1
    /\ resp = Idle

(* ------------------------------ read views ---------------------------- *)
\* def index(request)
Index(viewer, arg) ==
    /\ resp' = Listing("index", viewer, 0, arg,
                       OrderByPubDateDesc({p \in DOMAIN posts : IndexFilter(p)}))
    /\ UNCHANGED <<store, now>>

\* def category_posts(request, category_slug)
CategoryStatus(slug) ==
    IF slug \in DOMAIN categories /\ categories[slug].is_published THEN "200" ELSE "404"

CategoryPosts(viewer, slug, arg) ==
    /\ resp' = IF CategoryStatus(slug) = "404"
               THEN Response("category", viewer, slug, "404")
               ELSE Listing("category", viewer, slug, arg,
                            OrderByPubDateDesc({p \in DOMAIN posts : CategoryFilter(slug, p)}))
    /\ UNCHANGED <<store, now>>

\* DetailView.get_object with slug_field = 'username'
UserByName(username) ==
    IF \E u \in DOMAIN users : users[u].username = username
    THEN CHOOSE u \in DOMAIN users : users[u].username = username
    ELSE Anonymous

\* class ProfileView(DetailView)
Profile(viewer, username, arg) ==
    /\ resp' = IF UserByName(username) = Anonymous
               THEN Response("profile", viewer, username, "404")
               ELSE Listing("profile", viewer, username, arg,
                            OrderByPubDateDesc({p \in DOMAIN posts :
                                ProfileFilter(viewer, UserByName(username), p)}))
    /\ UNCHANGED <<store, now>>

\* def post_detail(request, post_id): get_object_or_404(posts, pk=post_id)
DetailStatus(viewer, id) ==
    IF id \in DOMAIN posts /\ DetailFilter(viewer, id) THEN "200" ELSE "404"

PostDetail(viewer, id) ==
    /\ resp' = Response("detail", viewer, id, DetailStatus(viewer, id))
    /\ UNCHANGED <<store, now>>

(* ---------------------------- access mixins --------------------------- *)
\* test_func that lets every logged-in user pass
TestFuncAny(viewer, obj) == TRUE

\* AuthorRequiredMixin.test_func: self.request.user == obj.author
TestFunc(viewer, obj) == viewer = obj.author

\* the author test (and its get_object) placed before the login test
AuthorGateExistenceFirst(viewer, table, id) ==
    IF id \notin DOMAIN table THEN "404"
    ELSE IF viewer = Anonymous THEN "login"
    ELSE IF ~TestFunc(viewer, table[id]) THEN "403"
    ELSE "302"

\* LoginRequiredMixin.dispatch, then UserPassesTestMixin.dispatch (test_func
\* calls get_object, which raises Http404), then the view
AuthorGate(viewer, table, id) ==
    IF viewer = Anonymous THEN "login"
    ELSE IF id \notin DOMAIN table THEN "404"
    ELSE IF ~TestFunc(viewer, table[id]) THEN "403"
    ELSE "302"

Remove(table, id) == [k \in DOMAIN table \ {id} |-> table[k]]

\* PostForm.__init__: Category.objects.filter(is_published=True); the field is optional
CategoryChoices == {c \in DOMAIN categories : categories[c].is_published} \cup {NoCategory}

(* ------------------------------ post views ---------------------------- *)
\* class PostCreateView(LoginRequiredMixin, PostMixin, CreateView), POST of a valid form
PostCreate(viewer, pub_date, category) ==
    /\ viewer # Anonymous => post_seq < MaxPosts
    /\ category \in CategoryChoices
    /\ IF viewer = Anonymous
       THEN /\ resp' = Response("post_create", viewer, 0, "login")
            /\ UNCHANGED <<posts, post_seq>>
       ELSE /\ post_seq' = post_seq + 1
            /\ posts' = posts @@ (post_seq' :> [author |-> viewer, is_published |-> TRUE,
                                              category |-> category, pub_date |-> pub_date])
            /\ resp' = Response("post_create", viewer, post_seq', "302")
    /\ UNCHANGED <<users, categories, comments, comment_seq, now>>

\* class PostUpdateView(LoginRequiredMixin, AuthorRequiredMixin, PostMixin, UpdateView)
PostUpdate(viewer, id, pub_date, category) ==
    /\ category \in CategoryChoices
    /\ resp' = Response("post_edit", viewer, id, AuthorGate(viewer, posts, id))
    /\ posts' = IF AuthorGate(viewer, posts, id) = "302"
                THEN [posts EXCEPT ![id].pub_date = pub_date, ![id].category = category]
                ELSE posts
    /\ UNCHANGED <<users, categories, post_seq, comments, comment_seq, now>>

\* Comment.post is a foreign key to Post: deleting the post removes its comments
CascadeComments(id) == [c \in {k \in DOMAIN comments : comments[k].post # id} |-> comments[c]]

\* class PostDeleteView(LoginRequiredMixin, AuthorRequiredMixin, PostMixin, DeleteView)
PostDelete(viewer, id) ==
    /\ resp' = Response("post_delete", viewer, id, AuthorGate(viewer, posts, id))
    /\ IF AuthorGate(viewer, posts, id) = "302"
       THEN posts' = Remove(posts, id) /\ comments' = CascadeComments(id)
       ELSE UNCHANGED <<posts, comments>>
    /\ UNCHANGED <<users, categories, post_seq, comment_seq, now>>

(* ----------------------------- comment views -------------------------- *)
\* add_comment without @login_required
AddCommentStatusNoLogin(viewer, id) ==
    IF id \notin DOMAIN posts THEN "404" ELSE "302"

\* @login_required def add_comment(request, post_id)
AddCommentStatus(viewer, id) ==
    IF viewer = Anonymous THEN "login"
    ELSE IF id \notin DOMAIN posts THEN "404"
    ELSE "302"

AddComment(viewer, id, method, valid, text) ==
    /\ (AddCommentStatus(viewer, id) = "302" /\ method = "POST" /\ valid)
          => comment_seq < MaxComments
    /\ resp' = Response("add_comment", viewer, id, AddCommentStatus(viewer, id))
    /\ IF AddCommentStatus(viewer, id) = "302" /\ method = "POST" /\ valid
       THEN /\ comment_seq' = comment_seq + 1
            /\ comments' = comments @@
                   (comment_seq' :> [author |-> viewer, post |-> id, text |-> text])
       ELSE UNCHANGED <<comments, comment_seq>>
    /\ UNCHANGED <<users, categories, posts, post_seq, now>>

\* class CommentUpdateView(LoginRequiredMixin, AuthorRequiredMixin, CommentMixin, UpdateView)
CommentUpdate(viewer, id, text) ==
    /\ resp' = Response("comment_edit", viewer, id, AuthorGate(viewer, comments, id))
    /\ comments' = IF AuthorGate(viewer, comments, id) = "302"
                   THEN [comments EXCEPT ![id].text = text]
                   ELSE comments
    /\ UNCHANGED <<users, categories, posts, post_seq, comment_seq, now>>

\* class CommentDeleteView(LoginRequiredMixin, AuthorRequiredMixin, CommentMixin, DeleteView)
CommentDelete(viewer, id) ==
    /\ resp' = Response("comment_delete", viewer, id, AuthorGate(viewer, comments, id))
    /\ comments' = IF AuthorGate(viewer, comments, id) = "302"
                   THEN Remove(comments, id)
                   ELSE comments
    /\ UNCHANGED <<users, categories, posts, post_seq, comment_seq, now>>

(* ------------------------------ user forms ---------------------------- *)
\* CustomUserCreationForm.clean_email: User.objects.filter(email=email).exists()
EmailExists(email) == \E u \in DOMAIN users : users[u].email = email

\* the username's unique constraint, checked by the model form (a user's own row excluded)
UsernameTaken(username, self) ==
    \E u \in DOMAIN users \ {self} : users[u].username = username

\* CustomUserCreationForm: clean_email, then save
RegisterStatus(username, email) ==
    IF EmailExists(email) THEN "DuplicateEmail"
    ELSE IF UsernameTaken(username, Anonymous) THEN "invalid"
    ELSE "302"

Register(username, email) ==
    /\ RegisterStatus(username, email) = "302" => Cardinality(DOMAIN users) < MaxUsers
    /\ resp' = Response("register", Anonymous, email, RegisterStatus(username, email))
    /\ users' = IF RegisterStatus(username, email) = "302"
                THEN users @@ ((Cardinality(DOMAIN users) + 1) :>
                                   [username |-> username, email |-> email])
                ELSE users
    /\ UNCHANGED <<categories, posts, post_seq, comments, comment_seq, now>>

\* class ProfileUpdateView(LoginRequiredMixin, UpdateView), fields username and email
ProfileUpdateStatus(viewer, username) ==
    IF viewer = Anonymous THEN "login"
    ELSE IF UsernameTaken(username, viewer) THEN "invalid"
    ELSE "302"

ProfileUpdate(viewer, username, email) ==
    /\ resp' = Response("profile_edit", viewer, email, ProfileUpdateStatus(viewer, username))
    /\ users' = IF ProfileUpdateStatus(viewer, username) = "302"
                THEN [users EXCEPT ![viewer] = [username |-> username, email |-> email]]
                ELSE users
    /\ UNCHANGED <<categories, posts, post_seq, comments, comment_seq, now>>

(* ------------------------- the site administrator --------------------- *)
\* Post.is_published is no field of PostForm: it is set in the admin site
AdminSetPostPublished(id, flag) ==
    /\ id \in DOMAIN posts
    /\ posts[id].is_published # flag
    /\ posts' = [posts EXCEPT ![id].is_published = flag]
    /\ resp' = Idle
    /\ UNCHANGED <<users, categories, post_seq, comments, comment_seq, now>>

\* Category.is_published is set in the admin site
AdminSetCategoryPublished(slug, flag) ==
    /\ categories[slug].is_published # flag
    /\ categories' = [categories EXCEPT ![slug].is_published = flag]
    /\ resp' = Idle
    /\ UNCHANGED <<users, posts, post_seq, comments, comment_seq, now>>

\* timezone.now() advances between requests
Tick ==
    /\ now < MaxTime
    /\ now' = now + 1
    /\ resp' = Idle
    /\ UNCHANGED store

(* --------------------------- specifications --------------------------- *)
Next ==
    \/ \E v \in Viewers : Index(v, NoPage)
    \/ \E v \in Viewers, s \in Slugs \cup {NoCategory} : CategoryPosts(v, s, NoPage)
    \/ \E v \in Viewers, n \in Usernames : Profile(v, n, NoPage)
    \/ \E v \in Viewers, id \in PostIds : PostDetail(v, id)
    \/ \E v \in Viewers, d \in Dates, c \in Slugs \cup {NoCategory} : PostCreate(v, d, c)
    \/ \E v \in Viewers, id \in PostIds, d \in Dates, c \in Slugs \cup {NoCategory} :
           PostUpdate(v, id, d, c)
    \/ \E v \in Viewers, id \in PostIds : PostDelete(v, id)
    \/ \E v \in Viewers, id \in PostIds, m \in {"GET", "POST"}, ok \in BOOLEAN, t \in Texts :
           AddComment(v, id, m, ok, t)
    \/ \E v \in Viewers, id \in CommentIds, t \in Texts : CommentUpdate(v, id, t)
    \/ \E v \in Viewers, id \in CommentIds : CommentDelete(v, id)
    \/ \E id \in PostIds, b \in BOOLEAN : AdminSetPostPublished(id, b)
    \/ \E s \in Slugs, b \in BOOLEAN : AdminSetCategoryPublished(s, b)
    \/ Tick

Spec == Init /\ [][Next]_vars

\* the handlers that read or write posts, categories and the clock
NextPosts ==
    \/ \E v \in Viewers : Index(v, NoPage)
    \/ \E v \in Viewers, s \in Slugs \cup {NoCategory} : CategoryPosts(v, s, NoPage)
    \/ \E v \in Viewers, n \in Usernames : Profile(v, n, NoPage)
    \/ \E v \in Viewers, id \in PostIds : PostDetail(v, id)
    \/ \E v \in Viewers, d \in Dates, c \in Slugs \cup {NoCategory} : PostCreate(v, d, c)
    \/ \E v \in Viewers, id \in PostIds, d \in Dates, c \in Slugs \cup {NoCategory} :
           PostUpdate(v, id, d, c)
    \/ \E v \in Viewers, id \in PostIds : PostDelete(v, id)
    \/ \E id \in PostIds, b \in BOOLEAN : AdminSetPostPublished(id, b)
    \/ \E s \in Slugs, b \in BOOLEAN : AdminSetCategoryPublished(s, b)
    \/ Tick

SpecPosts == Init /\ [][NextPosts]_vars

\* a store of n published posts of user 1: the first a dated 1, the rest dated 2
ListedPosts(n, a) ==
    [p \in 1..n |-> [author |-> 1, is_published |-> TRUE, category |-> 1,
                     pub_date |-> IF p <= a THEN 1 ELSE 2]]

InitPage ==
    /\ users = TwoUsers
    /\ categories = [s \in Slugs |-> [is_published |-> TRUE]]
    /\ \E n \in 0..MaxListed : \E a \in 0..n : posts = ListedPosts(n, a) /\ post_seq = n
    /\ comments = <<>>
    /\ comment_seq = 0
    /\ now \in Dates
    /\ resp = Idle

\* the listings, requested with every kind of page parameter
NextPage ==
    \/ \E arg \in PageArgs : Index(Anonymous, arg)
    \/ \E s \in Slugs, arg \in PageArgs : CategoryPosts(Anonymous, s, arg)
    \/ \E v \in DOMAIN TwoUsers, arg \in PageArgs : Profile(v, 1, arg)

SpecPage == InitPage /\ [][NextPage]_vars

InitUsers ==
    /\ users = <<>>
    /\ categories = [s \in Slugs |-> [is_published |-> TRUE]]
    /\ posts = <<>>
    /\ post_seq = 0
    /\ comments = <<>>
    /\ comment_seq = 0
    /\ now = 1
    /\ resp = Idle

\* registration and profile editing
NextUsers ==
    \/ \E n \in Usernames, e \in Emails : Register(n, e)
    \/ \E v \in Viewers, n \in Usernames, e \in Emails : ProfileUpdate(v, n, e)

SpecUsers == InitUsers /\ [][NextUsers]_vars

(* ------------------------------- claims ------------------------------- *)
\* the published-only condition of section 3: published, in a published
\* category, and not dated after the request
PublishedNow(p) ==
    /\ posts[p].is_published
    /\ posts[p].category # NoCategory
    /\ categories[posts[p].category].is_published
    /\ posts[p].pub_date <= now

\* visible(post, V) of section 3
Visible(v, p) == (v # Anonymous /\ v = posts[p].author) \/ PublishedNow(p)

\* C1: for a post that has a category, post_detail answers 200 exactly when the
\* post is visible to the viewer (the viewer is its author, or it is published,
\* its category is published and its pub_date is not after now), and 404 otherwise.
C1_DetailMatchesVisible ==
    (/\ resp.kind = "detail"
     /\ resp.target \in DOMAIN posts
     /\ posts[resp.target].category # NoCategory)
    => /\ resp.status \in {"200", "404"}
       /\ resp.status = "200" <=> Visible(resp.user, resp.target)

\* the author opens the detail page of an own post that nobody else may see
C1_Witness ==
    /\ resp.kind = "detail"
    /\ resp.status = "200"
    /\ resp.target \in DOMAIN posts
    /\ posts[resp.target].category # NoCategory
    /\ ~PublishedNow(resp.target)

\* C2: no page of the home listing or of a category listing holds a post that is
\* unpublished, in an unpublished category or dated after the request, whoever
\* the viewer is (the post's author included).
C2_ListingsPublishedOnly ==
    (resp.kind \in {"index", "category"} /\ resp.status = "200")
    => /\ Range(resp.items) \subseteq Range(resp.object_list)
       /\ \A k \in 1..NumPages(Len(resp.object_list)) :
             \A p \in Range(PageItems(resp.object_list, k)) :
                 p \in DOMAIN posts /\ PublishedNow(p)

\* the author of a post that is not public requests the home listing
C2_Witness ==
    /\ resp.kind = "index"
    /\ resp.status = "200"
    /\ \E p \in DOMAIN posts :
          /\ posts[p].author = resp.user
          /\ ~PublishedNow(p)
          /\ p \notin Range(resp.object_list)

\* C3: the pages of the profile listing of user U hold, together, all of U's
\* posts when the viewer is U, and exactly U's published posts (published
\* category, pub_date not after now) when the viewer is anyone else.
C3_ProfileListing ==
    (resp.kind = "profile" /\ resp.status = "200")
    => LET u == UserByName(resp.target)
           listed == UNION {Range(PageItems(resp.object_list, k)) :
                               k \in 1..NumPages(Len(resp.object_list))}
       IN  listed = IF resp.user = u
                    THEN {p \in DOMAIN posts : posts[p].author = u}
                    ELSE {p \in DOMAIN posts : posts[p].author = u /\ PublishedNow(p)}

\* the owner's profile page shows a post that is not public
C3_Witness ==
    /\ resp.kind = "profile"
    /\ resp.status = "200"
    /\ resp.user = UserByName(resp.target)
    /\ \E p \in Range(resp.items) : ~PublishedNow(p)

\* a published post in a published category: only its pub_date can hide it
Scheduled(p) ==
    /\ posts[p].is_published
    /\ posts[p].category # NoCategory
    /\ categories[posts[p].category].is_published

\* C10: a published post in a published category is in the home listing, in its
\* category's listing, in its author's profile as others see it and on the
\* detail page for non-authors exactly in the requests made at a time
\* now >= pub_date: absent while now < pub_date, present afterwards.
C10_DeferredPublication ==
    \A p \in DOMAIN posts : Scheduled(p) =>
        /\ (resp.kind = "index" /\ resp.status = "200")
              => (p \in Range(resp.object_list) <=> posts[p].pub_date <= now)
        /\ (resp.kind = "category" /\ resp.status = "200" /\ resp.target = posts[p].category)
              => (p \in Range(resp.object_list) <=> posts[p].pub_date <= now)
        /\ (/\ resp.kind = "profile" /\ resp.status = "200"
            /\ UserByName(resp.target) = posts[p].author
            /\ resp.user # posts[p].author)
              => (p \in Range(resp.object_list) <=> posts[p].pub_date <= now)
        /\ (resp.kind = "detail" /\ resp.target = p /\ resp.user # posts[p].author)
              => (resp.status = "200" <=> posts[p].pub_date <= now)

\* the clock has passed the first instant and reached the pub_date of a post,
\* which the category listing now shows
C10_Witness ==
    /\ resp.kind = "category"
    /\ resp.status = "200"
    /\ \E p \in Range(resp.items) :
          /\ posts[p].pub_date = now
          /\ now > 1
          /\ resp.user # posts[p].author

PostKinds == {"post_edit", "post_delete"}
CommentKinds == {"comment_edit", "comment_delete"}
EditKinds == PostKinds \cup CommentKinds

\* the table an edit or delete request of this kind looks its target up in
TableOf(kind) == IF kind \in PostKinds THEN posts ELSE comments

PostTouched(p) == p \notin DOMAIN posts' \/ posts'[p] # posts[p]
CommentTouched(c) == c \notin DOMAIN comments' \/ comments'[c] # comments[c]

C5_ExistenceFirst ==
    [][resp'.kind \in EditKinds =>
          LET v == resp'.user
              t == resp'.target
              table == TableOf(resp'.kind)
          IN  resp'.status = IF t \notin DOMAIN table THEN "404"
                             ELSE IF v = Anonymous THEN "login"
                             ELSE IF v # table[t].author THEN "403"
                             ELSE "302"]_vars

\* C5, amended: an edit or delete request answers AuthenticationRequired when
\* the identity is anonymous (whether or not the target exists), else NotFound
\* when the target does not exist, else Forbidden when the identity is not the
\* author, else proceeds.
C5_LoginFirst ==
    [][resp'.kind \in EditKinds =>
          LET v == resp'.user
              t == resp'.target
              table == TableOf(resp'.kind)
          IN  resp'.status = IF v = Anonymous THEN "login"
                             ELSE IF t \notin DOMAIN table THEN "404"
                             ELSE IF v # table[t].author THEN "403"
                             ELSE "302"]_vars

\* an anonymous request to edit a post that does not exist was sent to the login page
C5_Witness ==
    /\ resp.kind = "post_edit"
    /\ resp.user = Anonymous
    /\ resp.target \notin DOMAIN posts
    /\ resp.status = "login"

\* C6: every comment is created by add_comment on a post that its author could
\* view at that time (own post, or published, in a published category, with
\* pub_date not after now).
C6_CommentsOnVisiblePosts ==
    [][\A c \in DOMAIN comments' \ DOMAIN comments :
          /\ resp'.kind = "add_comment"
          /\ comments'[c].post \in DOMAIN posts
          /\ Visible(comments'[c].author, comments'[c].post)]_vars

\* C7: no two users have the same email.
C7_UniqueEmail ==
    \A u1 \in DOMAIN users : \A u2 \in DOMAIN users :
        u1 # u2 => users[u1].email # users[u2].email

\* an id that no post has or ever had
AbsentId == post_seq + 1

\* the outcome of a request of this kind by viewer v that names post id
StatusOf(kind, v, id) ==
    IF kind = "detail" THEN DetailStatus(v, id)
    ELSE IF kind = "add_comment" THEN AddCommentStatus(v, id)
    ELSE AuthorGate(v, posts, id)

PostRequestKinds == {"detail", "add_comment", "post_edit", "post_delete"}

\* the request just answered named an existing post its sender cannot view
HiddenTarget ==
    /\ resp.kind \in PostRequestKinds
    /\ resp.target \in DOMAIN posts
    /\ ~Visible(resp.user, resp.target)

\* C8 as stated: a request (post detail, add comment, edit post, delete post)
\* that names a post hidden from its sender has the outcome of the same request
\* naming an id of no post.
C8_HiddenLikeAbsent ==
    HiddenTarget => resp.status = StatusOf(resp.kind, resp.user, AbsentId)

\* C8, amended: the post detail request never tells a hidden post from an absent
\* one (NotFound both), and neither does any of the four requests sent by an
\* anonymous viewer (NotFound for detail, the login redirect for the others);
\* sent by a logged-in viewer, add comment answers a redirect and edit and
\* delete answer Forbidden for the hidden post, against NotFound for an absent id.
C8_DetailHidesExistence ==
    HiddenTarget =>
        LET absent == StatusOf(resp.kind, resp.user, AbsentId)
        IN  /\ resp.kind = "detail" => resp.status = "404" /\ absent = "404"
            /\ resp.user = Anonymous => resp.status = absent
            /\ (resp.user # Anonymous /\ resp.kind = "add_comment")
                  => resp.status = "302" /\ absent = "404"
            /\ (resp.user # Anonymous /\ resp.kind \in PostKinds)
                  => resp.status = "403" /\ absent = "404"

\* a logged-in viewer asked for the detail page of an existing post that is
\* hidden from them, and got NotFound
C8_Witness ==
    /\ HiddenTarget
    /\ resp.kind = "detail"
    /\ resp.user # Anonymous
    /\ resp.status = "404"

\* the object list is in descending pub_date order
Descending(list) ==
    \A i \in 1..Len(list) : \A j \in 1..Len(list) :
        i < j => posts[list[i]].pub_date >= posts[list[j]].pub_date

\* ceil(N/10), and one (empty) page for an empty listing
LastPage(n) == IF n = 0 THEN 1 ELSE (n + 9) \div 10

\* posts 10(k-1)+1 .. min(10k, N) of the list
Slice(list, k) ==
    SubSeq(list, 10 * (k - 1) + 1, IF 10 * k < Len(list) THEN 10 * k ELSE Len(list))

IntegerPageRequested ==
    /\ resp.kind \in {"index", "category", "profile"}
    /\ resp.status = "200"
    /\ resp.arg[1] = "int"

\* C9 as stated: page k of a listing of N posts in descending pub_date order is
\* posts 10(k-1)+1 .. min(10k, N) for 1 <= k <= ceil(N/10); a k above the range
\* gives the last page and a k below 1 gives the first page.
C9_ClampToNearest ==
    IntegerPageRequested =>
        LET list == resp.object_list
            k == resp.arg[2]
        IN  /\ Descending(list)
            /\ Len(resp.items) <= 10
            /\ resp.items = IF k < 1 THEN Slice(list, 1)
                            ELSE IF k > LastPage(Len(list)) THEN Slice(list, LastPage(Len(list)))
                            ELSE Slice(list, k)

\* C9, amended: page k of a listing of N posts in descending pub_date order is
\* posts 10(k-1)+1 .. min(10k, N) for 1 <= k <= ceil(N/10); a k outside the
\* range never fails and gives the last page, both when k is above the range
\* and when k is below 1.
C9_ClampToLast ==
    IntegerPageRequested =>
        LET list == resp.object_list
            k == resp.arg[2]
        IN  /\ Descending(list)
            /\ Len(resp.items) <= 10
            /\ resp.items = IF k < 1 \/ k > LastPage(Len(list))
                            THEN Slice(list, LastPage(Len(list)))
                            ELSE Slice(list, k)

\* page 0 of a listing of more than one page was requested and the last page,
\* not the first, came back
C9_Witness ==
    /\ IntegerPageRequested
    /\ resp.arg[2] = 0
    /\ Len(resp.object_list) > 10
    /\ resp.number = LastPage(Len(resp.object_list))
    /\ resp.items # Slice(resp.object_list, 1)

====
